---- MODULE Spec2Model ----
(***************************************************************************)
(* The annotation-to-geometry transform of quran-art, in its two variants: *)
(*   hada_viz.py  : download_qac -> parse_qac -> compute_axes ->           *)
(*                  draw_surahs -> generate_gallery                        *)
(*   quran_art.py : main (read_csv, classify, draw loop, gallery)          *)
(* A corpus is a sequence of tokens in document order; a token's corpus    *)
(* position is its 0-based index in that sequence.                         *)
(*                                                                         *)
(* Numbers: degrees are integers (every turn is a multiple of 15).  A      *)
(* coordinate is a 4-tuple <<a,b,c,d>> standing for the real number        *)
(* (a + b*sqrt2 + c*sqrt3 + d*sqrt6)/4, which represents cos and sin of    *)
(* every multiple of 15 degrees exactly; the code computes the same values *)
(* in binary floating point.  Stroke widths are in tenths (0.6 -> 6).      *)
(***************************************************************************)
EXTENDS Integers, Sequences, FiniteSets, TLC

\* ------------------------------------------------------------- bounds
\* longest corpus read
MaxLen == 5
\* longest corpus whose tokens are spread over several sections
MaxPath == 3

\* ------------------------------------------------------------- constants
\* range(1,115): the sections drawn and listed are 1..LastSurah
LastSurah == 114
\* len(QAC_URLS)
NumUrls == 2

\* ------------------------------------------------------------- vocabulary
Variants == {"hada_viz", "quran_art"}
\* the kind of a token: a proximal demonstrative, one of the finite-verb
\* tense tags, or anything else
TenseMarkers == {"PERF", "IMPF", "JUS", "IMPV"}
Kinds == {"DM", "N"} \cup TenseMarkers
Numbers == {"sg", "dual", "pl"}
\* head attribute: the id of a token, or absent, or an id no token carries
NoHead == -1
Dangling == -2

Max(a, b) == IF a > b THEN a ELSE b
Min(a, b) == IF a < b THEN a ELSE b
Abs(a) == IF a < 0 THEN 0 - a ELSE a

\* the identifier a token at corpus position p carries (token_id / token
\* column): unique, assigned in document order; the first is 8, so that a
\* short corpus holds identifiers of one and of two digits
TokenId(p) == p + 8

\* ------------------------------------------------------------- strings
\* decimal digits of a natural number, most significant first: the text of
\* a numeric field read as a string (dtype=str, or an XML attribute)
RECURSIVE Digits(_)
Digits(n) == IF n < 10 THEN <<n>> ELSE Append(Digits(n \div 10), n % 10)

\* Python's < on two strings: first differing character decides, a proper
\* prefix is smaller
RECURSIVE SeqLess(_, _)
SeqLess(s, t) ==
    IF s = <<>> THEN t # <<>>
    ELSE IF t = <<>> THEN FALSE
    ELSE IF Head(s) # Head(t) THEN Head(s) < Head(t)
    ELSE SeqLess(Tail(s), Tail(t))

StrLess(a, b) == SeqLess(Digits(a), Digits(b))

\* ------------------------------------------------------------- turn table
\* the table with the signs of the two (0, t) entries exchanged
TurnSignSlip(s, t) ==
    CASE s = -1 /\ t = -1 -> -60
      [] s = -1 /\ t = 0  -> -30
      [] s = -1 /\ t = 1  -> 0
      [] s = 0  /\ t = -1 -> 15
      [] s = 0  /\ t = 0  -> 0
      [] s = 0  /\ t = 1  -> -15
      [] s = 1  /\ t = -1 -> 30
      [] s = 1  /\ t = 0  -> 60
      [] s = 1  /\ t = 1  -> 90

\* TURN / TURN_MAP; a key outside the table has no CASE arm (KeyError)
TURN(s, t) ==
    CASE s = -1 /\ t = -1 -> -60
      [] s = -1 /\ t = 0  -> -30
      [] s = -1 /\ t = 1  -> 0
      [] s = 0  /\ t = -1 -> -15
      [] s = 0  /\ t = 0  -> 0
      [] s = 0  /\ t = 1  -> 15
      [] s = 1  /\ t = -1 -> 30
      [] s = 1  /\ t = 0  -> 60
      [] s = 1  /\ t = 1  -> 90

TurnKeys == {-1, 0, 1} \X {-1, 0, 1}

\* TURN_MAP.get((s,t), 0)
TURN_MAP_get(s, t) == IF <<s, t>> \in TurnKeys THEN TURN(s, t) ELSE 0

\* THICKNESS, in tenths
THICKNESS(number) ==
    CASE number = "sg" -> 6
      [] number = "dual" -> 10
      [] number = "pl" -> 14

\* ------------------------------------------------------------- trigonometry
\* 4*cos of a multiple of 15 degrees in 0..90, in the basis 1, r2, r3, r6
CosQ1(d) ==
    CASE d = 0  -> <<4, 0, 0, 0>>
      [] d = 15 -> <<0, 1, 0, 1>>
      [] d = 30 -> <<0, 0, 2, 0>>
      [] d = 45 -> <<0, 2, 0, 0>>
      [] d = 60 -> <<2, 0, 0, 0>>
      [] d = 75 -> <<0, -1, 0, 1>>
      [] d = 90 -> <<0, 0, 0, 0>>

VNeg(v) == <<0 - v[1], 0 - v[2], 0 - v[3], 0 - v[4]>>
VAdd(v, w) == <<v[1] + w[1], v[2] + w[2], v[3] + w[3], v[4] + w[4]>>
VSub(v, w) == VAdd(v, VNeg(w))
\* product of two numbers of the field, both scaled by 4 (result by 16)
VMul(v, w) ==
    << v[1]*w[1] + 2*v[2]*w[2] + 3*v[3]*w[3] + 6*v[4]*w[4],
       v[1]*w[2] + v[2]*w[1] + 3*(v[3]*w[4] + v[4]*w[3]),
       v[1]*w[3] + v[3]*w[1] + 2*(v[2]*w[4] + v[4]*w[2]),
       v[1]*w[4] + v[4]*w[1] + v[2]*w[3] + v[3]*w[2] >>
VZero == <<0, 0, 0, 0>>

\* math.cos(math.radians(h)) for h a multiple of 15 degrees, times 4
Cos4(h) ==
    LET d == h % 360 IN
    IF d <= 90 THEN CosQ1(d)
    ELSE IF d <= 180 THEN VNeg(CosQ1(180 - d))
    ELSE IF d <= 270 THEN VNeg(CosQ1(d - 180))
    ELSE CosQ1(360 - d)

\* math.sin(math.radians(h)), times 4
Sin4(h) == Cos4(h - 90)


\* ------------------------------------------------------------- corpus
\* one token of the corpus: section, subsection, word number within the
\* subsection, kind (form / tag), number class of a demonstrative, head id
Tok(su, ay, w, k, nu, h) ==
    [surah |-> su, ayah |-> ay, word |-> w, kind |-> k, num |-> nu, head |-> h]

\* 0-based positions 0..Len(c)-1 of a corpus
Positions(c) == 0 .. (Len(c) - 1)
At(c, p) == c[p + 1]

\* the increasing sequence lo, lo+1, .., hi (empty when lo > hi)
Slice(lo, hi) == [i \in 1..(hi - lo + 1) |-> lo + i - 1]

\* ------------------------------------------------------------- hada_viz
\* form in DEMONSTRATIVES
IsDemonstrative(tok) == tok.kind = "DM"

\* one element of parse_qac's list; cpos is the token's corpus position,
\* which the code does not keep (kept here to state properties)
ParsedRow(c, p) ==
    [cpos |-> p, surah |-> At(c, p).surah, ayah |-> At(c, p).ayah,
     word_id |-> At(c, p).word, token_id |-> TokenId(p),
     pos |-> At(c, p).kind, head |-> At(c, p).head, number |-> At(c, p).num]

\* parse_qac: only the tokens whose form is in the lexicon are appended
parse_qac(c) ==
    LET ps == SelectSeq(Slice(0, Len(c) - 1), LAMBDA p : IsDemonstrative(At(c, p)))
    IN [i \in 1..Len(ps) |-> ParsedRow(c, ps[i])]

\* id_to_idx = dict(zip(token_id, global_index)): the last row wins
InIdToIdx(all, id) == \E i \in 1..Len(all) : all[i].token_id = id
IdToIdx(all, id) ==
    (CHOOSE i \in 1..Len(all) :
        /\ all[i].token_id = id
        /\ \A j \in 1..Len(all) : all[j].token_id = id => j <= i) - 1

Sign(a, b) == IF a < b THEN -1 ELSE IF a > b THEN 1 ELSE 0

\* compute_axes, spatial part
SpatialHada(all, row) ==
    IF row.head # NoHead /\ InIdToIdx(all, row.head)
    THEN Sign(IdToIdx(all, row.head), IdToIdx(all, row.token_id))
    ELSE 0

\* all_tokens.iloc[max(0, idx-3):idx+4] as 0-based row indices
WindowHada(all, row) ==
    LET idx == IF InIdToIdx(all, row.token_id)
               THEN IdToIdx(all, row.token_id) ELSE -1
    IN Slice(Max(0, idx - 3), Min(Len(all), idx + 4) - 1)

\* the first tense tag met scanning a sequence of tags, "" when none
RECURSIVE FirstMarker(_)
FirstMarker(tags) ==
    IF tags = <<>> THEN ""
    ELSE IF Head(tags) \in TenseMarkers THEN Head(tags)
    ELSE FirstMarker(Tail(tags))

TemporalOf(tag) == IF tag = "" THEN 0 ELSE IF tag = "PERF" THEN -1 ELSE 1

\* compute_axes, temporal part: the loop over the window with its break
TemporalHada(all, row) ==
    LET w == WindowHada(all, row)
    IN TemporalOf(FirstMarker([i \in 1..Len(w) |-> all[w[i] + 1].pos]))

\* compute_axes: the columns spatial, temporal, turn_deg, number added
compute_axes(df, all) ==
    [i \in 1..Len(df) |->
        LET s == SpatialHada(all, df[i])
            t == TemporalHada(all, df[i])
        IN [cpos |-> df[i].cpos, surah |-> df[i].surah, ayah |-> df[i].ayah,
            key |-> df[i].word_id, number |-> df[i].number,
            spatial |-> s, temporal |-> t, turn_deg |-> TURN(s, t)]]

\* ------------------------------------------------------------- quran_art
\* df[pos_col].str.contains('DM')
ContainsDM(tok) == tok.kind = "DM"

\* index_map = {k: i for i, k in enumerate(df[token_col])}; None = -1
IndexMapGet(c, id) ==
    IF \E p \in Positions(c) : TokenId(p) = id
    THEN CHOOSE p \in Positions(c) :
            /\ TokenId(p) = id
            /\ \A q \in Positions(c) : TokenId(q) = id => q <= p
    ELSE -1

\* main, lines 63-73
SpatialQA(c, idx) ==
    LET head_pos == IndexMapGet(c, At(c, idx).head)
    IN IF head_pos = -1 THEN 0 ELSE Sign(head_pos, idx)

\* df.iloc[max(idx-3,0):min(idx+4,len(df))] as corpus positions
WindowQA(c, idx) ==
    Slice(Max(idx - 3, 0), Min(idx + 4, Len(c)) - 1)

\* win[win[feature_col].str.contains('PERF|IMPF|JUS|IMPV')]
VerbRows(c, idx) ==
    SelectSeq(WindowQA(c, idx), LAMBDA p : At(c, p).kind \in TenseMarkers)

\* (verb_rows.index - idx).abs().idxmin(): the first row at least distance
NearestIndex(vr, idx) ==
    vr[CHOOSE i \in 1..Len(vr) :
          /\ \A j \in 1..Len(vr) : Abs(vr[i] - idx) <= Abs(vr[j] - idx)
          /\ \A j \in 1..(i - 1) : Abs(vr[j] - idx) > Abs(vr[i] - idx)]

\* main, lines 74-86
TemporalQA(c, idx) ==
    LET vr == VerbRows(c, idx)
    IN IF vr = <<>> THEN 0
       ELSE LET tag == At(c, NearestIndex(vr, idx)).kind
            IN IF tag = "PERF" THEN -1
               ELSE IF tag \in {"IMPF", "JUS", "IMPV"} THEN 1
               ELSE 0

\* extract_number, applied to the feature text of a demonstrative
extract_number(feat) ==
    IF feat = "dual" THEN "dual" ELSE IF feat = "pl" THEN "plural" ELSE "singular"

\* STROKE_WIDTH, in tenths
STROKE_WIDTH(number) ==
    CASE number = "singular" -> 6
      [] number = "dual" -> 10
      [] number = "plural" -> 14

\* main, lines 56-91: df_dm with its added columns
classify(c) ==
    LET ps == SelectSeq(Slice(0, Len(c) - 1), LAMBDA p : ContainsDM(At(c, p)))
    IN [i \in 1..Len(ps) |->
          LET idx == ps[i]
              s == SpatialQA(c, idx)
              t == TemporalQA(c, idx)
          IN [cpos |-> idx, surah |-> At(c, idx).surah, ayah |-> At(c, idx).ayah,
              key |-> TokenId(idx), number |-> extract_number(At(c, idx).num),
              spatial |-> s, temporal |-> t, turn_deg |-> TURN_MAP_get(s, t)]]

\* line 79 is reached for some demonstrative: its window holds a tense tag
ReachesIdxmin(c) ==
    \E p \in Positions(c) : ContainsDM(At(c, p)) /\ VerbRows(c, p) # <<>>


\* ------------------------------------------------------------- ordering
\* hada_viz: sort_values(['ayah','word_id']); ayah is an int, word_id the
\* text of the word element's id attribute
LessHada(a, b) ==
    \/ a.ayah < b.ayah
    \/ a.ayah = b.ayah /\ StrLess(a.key, b.key)

\* quran_art: sort_values([ayah_col, token_col]); every column was read
\* with dtype=str
LessQA(a, b) ==
    \/ StrLess(a.ayah, b.ayah)
    \/ a.ayah = b.ayah /\ StrLess(a.key, b.key)

RowLess(v, a, b) == IF v = "hada_viz" THEN LessHada(a, b) ELSE LessQA(a, b)

\* x put into an ordered sequence behind every element not greater than it
RECURSIVE InsertRow(_, _, _)
InsertRow(v, x, sorted) ==
    IF sorted = <<>> THEN <<x>>
    ELSE IF RowLess(v, x, Head(sorted)) THEN <<x>> \o sorted
    ELSE <<Head(sorted)>> \o InsertRow(v, x, Tail(sorted))

\* DataFrame.sort_values on several columns: a stable ascending sort
RECURSIVE SortRowsFrom(_, _, _)
SortRowsFrom(v, rows, acc) ==
    IF rows = <<>> THEN acc
    ELSE SortRowsFrom(v, Tail(rows), InsertRow(v, Head(rows), acc))

sort_values(v, rows) == SortRowsFrom(v, rows, <<>>)

\* df[df['surah'] == surah]
SurahRows(df, su) == SelectSeq(df, LAMBDA r : r.surah = su)

\* ------------------------------------------------------------- integration
Origin == <<VZero, VZero>>

\* the loop body with the step taken before the turn is added
StepBeforeTurn(st, row) ==
    LET rad == st.heading
        nx == VAdd(st.x, Cos4(rad))
        ny == VAdd(st.y, Sin4(rad))
    IN [heading |-> st.heading + row.turn_deg, x |-> nx, y |-> ny]

\* one pass of the loop body: turn, then one unit step at the new heading
Step(st, row) ==
    LET heading == st.heading + row.turn_deg
        nx == VAdd(st.x, Cos4(heading))
        ny == VAdd(st.y, Sin4(heading))
    IN [heading |-> heading, x |-> nx, y |-> ny]

\* the loop over the sorted rows: the accumulator after each row, in order
RECURSIVE Walk(_, _)
Walk(st, rows) ==
    IF rows = <<>> THEN <<>>
    ELSE LET nxt == Step(st, Head(rows))
         IN <<nxt>> \o Walk(nxt, Tail(rows))

Start == [heading |-> 90, x |-> VZero, y |-> VZero]

\* what is drawn for one section: the line segments in drawing order, each
\* with the width it is stroked with.  heading and cpos (the corpus
\* position of the token that caused the step) are kept to state properties.
Segments(sorted, widths) ==
    LET w == Walk(Start, sorted)
    IN [i \in 1..Len(sorted) |->
          [from |-> IF i = 1 THEN Origin ELSE <<w[i - 1].x, w[i - 1].y>>,
           to |-> <<w[i].x, w[i].y>>,
           width |-> widths[i],
           heading |-> w[i].heading,
           cpos |-> sorted[i].cpos]]

Blank == [blank |-> TRUE, segs |-> <<>>]

\* draw_surahs, one iteration of the loop over the sections
DrawHada(df, su) ==
    LET s_df == SurahRows(df, su)
    IN IF s_df = <<>> THEN Blank
       ELSE LET sorted == sort_values("hada_viz", s_df)
                thickness == THICKNESS(s_df[1].number)
            IN [blank |-> FALSE,
                segs |-> Segments(sorted, [i \in 1..Len(sorted) |-> thickness])]

\* main, lines 101-115: the figure of a section that has rows
DrawQA(df, su) ==
    LET data == sort_values("quran_art", SurahRows(df, su))
    IN [blank |-> FALSE,
        segs |-> Segments(data, [i \in 1..Len(data) |->
                                     STROKE_WIDTH(data[i].number)])]

\* the sections main draws: those whose rows are not empty (line 99)
DrawnQA(df) == {su \in 1..LastSurah : SurahRows(df, su) # <<>>}


\* ------------------------------------------------------------- inputs
\* The corpora read, in four families.  Every corpus is in document order
\* (section, subsection, word number strictly increasing).

\* one section, one subsection, words 1..n: every mix of demonstratives,
\* PERF, IMPF and other tokens; the demonstratives carry no head
CorporaTense ==
    UNION {
      { [i \in 1..n |-> Tok(1, 1, i, k[i], "sg", NoHead)] :
            k \in [1..n -> {"DM", "PERF", "IMPF", "N"}] }
      : n \in 1..MaxLen }

\* a demonstrative between two neighbours of any tense tag
CorporaTags ==
    { << Tok(1, 1, 1, a, "sg", NoHead), Tok(1, 1, 2, "DM", "sg", NoHead),
         Tok(1, 1, 3, b, "sg", NoHead) >> :
        a \in TenseMarkers \cup {"N"}, b \in TenseMarkers \cup {"N"} }

\* one section: a demonstrative at position p with any head (absent,
\* dangling, or any token of the corpus, itself included) among
\* demonstratives without head and other tokens, which in the shorter
\* corpora may be tagged PERF or IMPF
CorporaHead ==
    UNION {
      { [i \in 1..n |->
            IF i = p + 1 THEN Tok(1, 1, i, "DM", "sg", h)
            ELSE Tok(1, 1, i, k[i], "sg", NoHead)] :
            p \in 0..(n - 1),
            h \in {NoHead, Dangling} \cup {TokenId(q) : q \in 0..(n - 1)},
            k \in [1..n -> IF n <= MaxPath THEN {"DM", "N", "PERF", "IMPF"}
                                           ELSE {"DM", "N"}] }
      : n \in 1..MaxLen }

\* the places of the tokens of the last family: first and last section,
\* subsections 2 and 10, words 2 and 10
Places == {1, LastSurah} \X {2, 10} \X {2, 10}
PlaceLess(a, b) ==
    \/ a[1] < b[1]
    \/ a[1] = b[1] /\ a[2] < b[2]
    \/ a[1] = b[1] /\ a[2] = b[2] /\ a[3] < b[3]

\* demonstratives only, spread over sections, subsections and words, each
\* singular without head, plural with the first token as head, or dual
\* with the last token as head
CorporaPlaces ==
    UNION {
      { [i \in 1..n |->
            Tok(pl[i][1], pl[i][2], pl[i][3], "DM", t[i],
                CASE t[i] = "sg" -> NoHead
                  [] t[i] = "pl" -> TokenId(0)
                  [] t[i] = "dual" -> TokenId(n - 1))] :
            pl \in { q \in [1..n -> Places] :
                        \A i \in 1..(n - 1) : PlaceLess(q[i], q[i + 1]) },
            t \in [1..n -> Numbers] }
      : n \in 1..MaxPath }

Corpora == CorporaTense \cup CorporaTags \cup CorporaHead \cup CorporaPlaces

\* the answers of one requests.get: status 200, another status, or a
\* requests.RequestException
Responses == {"200", "404", "exception"}

\* ------------------------------------------------------------- state
VARIABLES
    variant,     \* which program runs
    pc,          \* where it is
    fileExists,  \* hada_viz: data/qac.xml is on disk
    url,         \* hada_viz: index of the next entry of QAC_URLS to try
    contacted,   \* hada_viz: the requests made so far: <<entry, answer>>
    written,     \* hada_viz: the entry whose content was written (0: none)
    error,       \* the exception that ended the run, "" when none
    corpus,      \* the tokens read from the file
    all_df,      \* hada_viz: the frame parse_qac returned
    df,          \* the frame of qualifying tokens with the derived columns
    csv,         \* hada_tokens.csv was written
    svg,         \* the section ids whose SVG was written
    figs,        \* section id -> the line drawn, for every SVG not blank
    png,         \* the section ids whose PNG was written
    gallery      \* the section ids gallery.html refers to

vars == <<variant, pc, fileExists, url, contacted, written, error, corpus,
          all_df, df, csv, svg, figs, png, gallery>>

Init ==
    /\ variant \in Variants
    /\ pc = IF variant = "hada_viz" THEN "download" ELSE "main"
    /\ fileExists \in (IF variant = "hada_viz" THEN BOOLEAN ELSE {TRUE})
    /\ url = 1
    /\ contacted = <<>>
    /\ written = 0
    /\ error = ""
    /\ corpus = <<>>
    /\ all_df = <<>>
    /\ df = <<>>
    /\ csv = FALSE
    /\ svg = {}
    /\ figs = <<>>
    /\ png = {}
    /\ gallery = {}

\* ------------------------------------------------------------- hada_viz
\* download_qac, line 113: the file is there, nothing is fetched
DownloadCached ==
    /\ pc = "download" /\ fileExists
    /\ pc' = "parse"
    /\ UNCHANGED <<variant, fileExists, url, contacted, written, error, corpus,
                   all_df, df, csv, svg, figs, png, gallery>>

\* the loop body with the status test dropped: any answer is written
DownloadTryAnyStatus ==
    /\ pc = "download" /\ ~fileExists /\ url <= NumUrls
    /\ \E r \in Responses :
         /\ contacted' = Append(contacted, <<url, r>>)
         /\ IF r # "exception"
            THEN /\ fileExists' = TRUE
                 /\ written' = url
                 /\ pc' = "parse"
                 /\ url' = url
            ELSE /\ url' = url + 1
                 /\ UNCHANGED <<fileExists, written, pc>>
    /\ UNCHANGED <<variant, error, corpus, all_df, df, csv, svg, figs, png, gallery>>

\* download_qac, one pass of the loop over QAC_URLS
DownloadTry ==
    /\ pc = "download" /\ ~fileExists /\ url <= NumUrls
    /\ \E r \in Responses :
         /\ contacted' = Append(contacted, <<url, r>>)
         /\ IF r = "200"
            THEN /\ fileExists' = TRUE
                 /\ written' = url
                 /\ pc' = "parse"
                 /\ url' = url
            ELSE /\ url' = url + 1
                 /\ UNCHANGED <<fileExists, written, pc>>
    /\ UNCHANGED <<variant, error, corpus, all_df, df, csv, svg, figs, png, gallery>>

\* download_qac, line 125: every entry failed
DownloadRaise ==
    /\ pc = "download" /\ ~fileExists /\ url > NumUrls
    /\ error' = "RuntimeError"
    /\ pc' = "failed"
    /\ UNCHANGED <<variant, fileExists, url, contacted, written, corpus,
                   all_df, df, csv, svg, figs, png, gallery>>

\* __main__, line 258: all_df = parse_qac(qac_path)
ParseQac ==
    /\ pc = "parse"
    /\ \E c \in Corpora :
         /\ corpus' = c
         /\ all_df' = parse_qac(c)
    /\ pc' = "axes"
    /\ UNCHANGED <<variant, fileExists, url, contacted, written, error, df,
                   csv, svg, figs, png, gallery>>

\* __main__, lines 259-262: df = all_df.copy(); compute_axes; to_csv
ComputeAxes ==
    /\ pc = "axes" /\ all_df # <<>>
    /\ df' = compute_axes(all_df, all_df)
    /\ csv' = TRUE
    /\ pc' = "draw"
    /\ UNCHANGED <<variant, fileExists, url, contacted, written, error, corpus,
                   all_df, svg, figs, png, gallery>>

\* compute_axes, line 169, on the frame of an empty list: pd.DataFrame([])
\* has no column token_id
ComputeAxesRaise ==
    /\ pc = "axes" /\ all_df = <<>>
    /\ error' = "KeyError"
    /\ pc' = "failed"
    /\ UNCHANGED <<variant, fileExists, url, contacted, written, corpus,
                   all_df, df, csv, svg, figs, png, gallery>>

\* draw_surahs: the whole loop over the sections
DrawSurahs ==
    /\ pc = "draw" /\ variant = "hada_viz"
    /\ svg' = 1..LastSurah
    /\ figs' = [su \in {x \in 1..LastSurah : ~DrawHada(df, x).blank} |->
                    DrawHada(df, su).segs]
    /\ png' = 1..LastSurah
    /\ pc' = "gallery"
    /\ UNCHANGED <<variant, fileExists, url, contacted, written, error, corpus,
                   all_df, df, csv, gallery>>

\* generate_gallery: one img per section id
GenerateGallery ==
    /\ pc = "gallery" /\ variant = "hada_viz"
    /\ gallery' = 1..LastSurah
    /\ pc' = "done"
    /\ UNCHANGED <<variant, fileExists, url, contacted, written, error, corpus,
                   all_df, df, csv, svg, figs, png>>

\* ------------------------------------------------------------- quran_art
\* main, lines 47-95: read the table, classify, write the CSV
MainClassify ==
    /\ pc = "main"
    /\ \E c \in Corpora :
         /\ corpus' = c
         /\ df' = classify(c)
    /\ csv' = TRUE
    /\ pc' = "draw"
    /\ UNCHANGED <<variant, fileExists, url, contacted, written, error, all_df,
                   svg, figs, png, gallery>>

\* main, line 79: a pandas Index has argmin but no idxmin; where the call
\* does not resolve the run ends there with an AttributeError
MainClassifyRaise ==
    /\ pc = "main"
    /\ \E c \in Corpora :
         /\ ReachesIdxmin(c)
         /\ corpus' = c
    /\ error' = "AttributeError"
    /\ pc' = "failed"
    /\ UNCHANGED <<variant, fileExists, url, contacted, written, all_df, df,
                   csv, svg, figs, png, gallery>>

\* main, lines 97-120: the loop over the sections
MainDraw ==
    /\ pc = "draw" /\ variant = "quran_art"
    /\ svg' = DrawnQA(df)
    /\ figs' = [su \in DrawnQA(df) |-> DrawQA(df, su).segs]
    /\ png' = DrawnQA(df)
    /\ pc' = "gallery"
    /\ UNCHANGED <<variant, fileExists, url, contacted, written, error, corpus,
                   all_df, df, csv, gallery>>

\* main, lines 122-132: one img per section id
MainGallery ==
    /\ pc = "gallery" /\ variant = "quran_art"
    /\ gallery' = 1..LastSurah
    /\ pc' = "done"
    /\ UNCHANGED <<variant, fileExists, url, contacted, written, error, corpus,
                   all_df, df, csv, svg, figs, png>>

Next ==
    \/ DownloadCached
    \/ DownloadTry
    \/ DownloadRaise
    \/ ParseQac
    \/ ComputeAxes
    \/ ComputeAxesRaise
    \/ DrawSurahs
    \/ GenerateGallery
    \/ MainClassify
    \/ MainClassifyRaise
    \/ MainDraw
    \/ MainGallery

Spec == Init /\ [][Next]_vars


\* ------------------------------------------------------------- properties
\* the derived columns exist
Classified == pc \in {"draw", "gallery", "done"}
\* the drawing loop has run
Drawn == pc \in {"gallery", "done"}

\* the qualifying tokens of a corpus, by position
Qualifying(c) == {p \in Positions(c) : At(c, p).kind = "DM"}

\* the positions within 3 of p, clipped to the corpus
ClippedWindow(c, p) == Max(0, p - 3) .. Min(Len(c) - 1, p + 3)
\* the tense-marker tokens among them
MarkersNear(c, p) == {q \in ClippedWindow(c, p) : At(c, q).kind \in TenseMarkers}
Least(S) == CHOOSE x \in S : \A y \in S : x <= y

\* the position of the token a head reference names, -1 when it names none
HeadPosition(c, p) ==
    IF \E h \in Positions(c) : TokenId(h) = At(c, p).head
    THEN CHOOSE h \in Positions(c) : TokenId(h) = At(c, p).head
    ELSE -1

\* the segments drawn for a section, none when its image is blank or missing
SegsOf(su) == IF su \in DOMAIN figs THEN figs[su] ELSE <<>>

\* the corpus of the end-to-end scenario, p its one qualifying token
ScenarioC1(c, p) ==
    /\ Qualifying(c) = {p}
    /\ \A q \in Positions(c) : At(c, q).surah = At(c, p).surah
    /\ HeadPosition(c, p) = -1
    /\ \E q \in Positions(c) :
         MarkersNear(c, p) = {q} /\ At(c, q).kind = "IMPF"
\* C1: end to end, for a corpus of one section with exactly one qualifying
\* token whose head is unresolved and whose +-3 window in the corpus holds
\* exactly one tense-marker token, tagged IMPF: the token gets spatial 0,
\* temporal 1, turn 15, and the section's path is the single unit step
\* from (0,0) at heading 105.
C1_EndToEnd ==
    \A p \in Positions(corpus) :
      (Classified /\ ScenarioC1(corpus, p)) =>
        /\ Len(df) = 1
        /\ df[1].spatial = 0 /\ df[1].temporal = 1 /\ df[1].turn_deg = 15
        /\ Drawn =>
             /\ Len(SegsOf(At(corpus, p).surah)) = 1
             /\ SegsOf(At(corpus, p).surah)[1].from = Origin
             /\ SegsOf(At(corpus, p).surah)[1].heading = 105
             /\ SegsOf(At(corpus, p).surah)[1].to =
                   << <<0, 1, 0, -1>>, <<0, 1, 0, 1>> >>

\* C2: temporal is decided by the leftmost tense-marker token of the
\* window [p-3, p+3]: -1 if it is PERF, +1 if IMPF, JUS or IMPV; temporal
\* is 0 exactly when the window holds no tense-marker token.
C2_LeftmostMarkerDecides ==
    Classified =>
      \A i \in 1..Len(df) :
        LET M == MarkersNear(corpus, df[i].cpos)
        IN /\ (df[i].temporal = 0) <=> (M = {})
           /\ M # {} =>
                df[i].temporal =
                    (IF At(corpus, Least(M)).kind = "PERF" THEN -1 ELSE 1)

\* C3: every qualifying token is kept and classified; spatial is -1, +1 or
\* 0 as the token its head names lies before it, after it or is the token
\* itself, and 0 when the head is absent or names no token of the corpus.
C3_SpatialFromHead ==
    Classified =>
      \A p \in Qualifying(corpus) :
        \E i \in 1..Len(df) :
          /\ df[i].cpos = p
          /\ df[i].spatial =
               (IF HeadPosition(corpus, p) = -1 THEN 0
                ELSE IF HeadPosition(corpus, p) < p THEN -1
                ELSE IF HeadPosition(corpus, p) > p THEN 1
                ELSE 0)

\* the turn table as documented
DocumentedTurn ==
    (<<-1, -1>> :> -60) @@ (<<-1, 0>> :> -30) @@ (<<-1, 1>> :> 0) @@
    (<<0, -1>> :> -15) @@ (<<0, 0>> :> 0) @@ (<<0, 1>> :> 15) @@
    (<<1, -1>> :> 30) @@ (<<1, 0>> :> 60) @@ (<<1, 1>> :> 90)
\* C4: every qualifying token has spatial and temporal in {-1,0,1}, and
\* its turn_deg is the documented table value of that pair.
C4_AxisRangeAndTurn ==
    \A i \in 1..Len(df) :
      /\ df[i].spatial \in {-1, 0, 1}
      /\ df[i].temporal \in {-1, 0, 1}
      /\ df[i].turn_deg = DocumentedTurn[<<df[i].spatial, df[i].temporal>>]
\* a table with a token classified (0,-1) and a token whose head follows
C4_Witness ==
    /\ Classified
    /\ \E i \in 1..Len(df) :
         df[i].spatial = 0 /\ df[i].temporal = -1 /\ df[i].turn_deg = -15
    /\ \E i \in 1..Len(df) : df[i].spatial = 1 /\ df[i].turn_deg >= 30

\* the turn of the token at corpus position p
TurnOfToken(p) == (CHOOSE r \in {df[i] : i \in 1..Len(df)} : r.cpos = p).turn_deg
RECURSIVE TurnsUpTo(_, _)
TurnsUpTo(segs, i) ==
    IF i = 0 THEN 0 ELSE TurnOfToken(segs[i].cpos) + TurnsUpTo(segs, i - 1)
UnitStep(seg) ==
    LET dx == VSub(seg.to[1], seg.from[1])
        dy == VSub(seg.to[2], seg.from[2])
    IN /\ dx = Cos4(seg.heading)
       /\ dy = Sin4(seg.heading)
       /\ VAdd(VMul(dx, dx), VMul(dy, dy)) = <<16, 0, 0, 0>>
\* C5: per section the path is a left fold over its qualifying tokens:
\* one step per token, none skipped or repeated; the path starts at (0,0);
\* step i runs at heading 90 + the turns of the tokens of steps 1..i, from
\* the end of step i-1, and is one unit long.
C5_LeftFold ==
    Drawn =>
      \A su \in svg :
        LET rows == SurahRows(df, su)
            segs == SegsOf(su)
        IN /\ Len(segs) = Len(rows)
           /\ {segs[i].cpos : i \in 1..Len(segs)} =
                 {rows[i].cpos : i \in 1..Len(rows)}
           /\ \A i, j \in 1..Len(segs) : segs[i].cpos = segs[j].cpos => i = j
           /\ \A i \in 1..Len(segs) :
                /\ segs[i].from = (IF i = 1 THEN Origin ELSE segs[i - 1].to)
                /\ segs[i].heading = 90 + TurnsUpTo(segs, i)
                /\ UnitStep(segs[i])
\* a finished run with a path of three steps that turns at least twice
C5_Witness ==
    /\ pc = "done"
    /\ \E su \in DOMAIN figs :
         /\ Len(figs[su]) >= 3
         /\ figs[su][1].heading # 90
         /\ figs[su][2].heading # figs[su][1].heading
         /\ figs[su][3].to # Origin

\* C6: every section id 1..114, also one without qualifying tokens, gets
\* its SVG and its PNG, so every image the gallery refers to exists.
C6_EverySectionDrawn ==
    /\ Drawn => \A su \in 1..LastSurah : su \in svg /\ su \in png
    /\ pc = "done" => gallery \subseteq svg

\* the corpus positions of the rows scanned for row i of the table
ScannedPositions(i) ==
    IF variant = "hada_viz"
    THEN LET w == WindowHada(all_df, all_df[i])
         IN {all_df[w[k] + 1].cpos : k \in 1..Len(w)}
    ELSE LET w == WindowQA(corpus, df[i].cpos)
         IN {w[k] : k \in 1..Len(w)}
\* C7: for a qualifying token at position p with p < 3 or p > last-3 the
\* temporal window is exactly the tokens at positions max(0,p-3) ..
\* min(last,p+3), and temporal is 0 when none of them is a tense marker.
C7_WindowClipped ==
    Classified =>
      \A i \in 1..Len(df) :
        LET p == df[i].cpos
        IN (p < 3 \/ p > Len(corpus) - 1 - 3) =>
             /\ ScannedPositions(i) = ClippedWindow(corpus, p)
             /\ MarkersNear(corpus, p) = {} => df[i].temporal = 0

\* C8: download_qac: a file already there is kept and nothing is
\* requested; otherwise the sources are asked in list order, the first
\* answer with status 200 is written and nothing is asked after it; when
\* every source fails a RuntimeError ends the run, nothing is written and
\* nothing is parsed or transformed.
C8_Acquisition ==
    variant = "hada_viz" =>
      /\ Len(contacted) <= NumUrls
      /\ \A i \in 1..Len(contacted) : contacted[i][1] = i
      /\ (fileExists /\ written = 0) => contacted = <<>>
      /\ written # 0 =>
           /\ fileExists
           /\ Len(contacted) = written
           /\ contacted[written][2] = "200"
           /\ \A i \in 1..(written - 1) : contacted[i][2] # "200"
      /\ (~fileExists /\ pc # "download") =>
           /\ pc = "failed" /\ error = "RuntimeError"
           /\ Len(contacted) = NumUrls
           /\ \A i \in 1..NumUrls : contacted[i][2] # "200"
      /\ error = "RuntimeError" =>
           /\ ~fileExists /\ written = 0
           /\ corpus = <<>> /\ all_df = <<>> /\ df = <<>>
           /\ ~csv /\ svg = {} /\ png = {} /\ gallery = {}
\* the primary failed and the mirror's answer was written, then parsed
C8_Witness ==
    /\ variant = "hada_viz" /\ pc = "axes"
    /\ written = NumUrls
    /\ contacted[1][2] # "200"

\* (ayah, word) compared as numbers
NumericallyBefore(a, b) ==
    \/ a.ayah < b.ayah
    \/ a.ayah = b.ayah /\ a.word < b.word
\* C9: within a section the steps are taken in document order: a token
\* with the numerically smaller (ayah, word) pair is stepped first.
C9_DocumentOrder ==
    Drawn =>
      \A su \in DOMAIN figs :
        \A i, j \in 1..Len(figs[su]) :
          NumericallyBefore(At(corpus, figs[su][i].cpos),
                            At(corpus, figs[su][j].cpos)) => i < j

\* stroke width of a number class, in tenths
WidthOfClass(nu) == IF nu = "sg" THEN 6 ELSE IF nu = "dual" THEN 10 ELSE 14
\* C10: every step is stroked with the width of the number class of the
\* token that produced it: singular 0.6, dual 1.0, plural 1.4.
C10_WidthPerStep ==
    Drawn =>
      \A su \in DOMAIN figs :
        \A i \in 1..Len(figs[su]) :
          figs[su][i].width = WidthOfClass(At(corpus, figs[su][i].cpos).num)

====
